---- MODULE Spec2Model ----
(***************************************************************************)
(* Forecast-discussion alerts (main.go): the section extractor             *)
(* (Product.GetDiscussionSection, sanitizeString, formatDiscussionItem),   *)
(* the subscriber resolver (User.GetSubscribedSections) and the delivery   *)
(* loop of main.                                                           *)
(*                                                                         *)
(* A Go string is a sequence of one-character strings.  The regular        *)
(* expressions are modelled by what Go's regexp package (RE2 syntax,       *)
(* leftmost-first matching, non-overlapping ReplaceAll) computes.          *)
(***************************************************************************)
EXTENDS Integers, Sequences, FiniteSets, TLC

VARIABLES
    \* sanitizeString, applied once and then to its own output
    sPc, sIn, sTrimmed, sJoined, sOut, sOut2,
    \* Product.GetDiscussionSection on one product text
    ePc, productText, sectionName, result, section, err,
    \* main: the loop over users and their discussion sections
    pc, users, ui, afd, discussionSections, si, fetchLog, smsLog

sanVars == <<sPc, sIn, sTrimmed, sJoined, sOut, sOut2>>
extVars == <<ePc, productText, sectionName, result, section, err>>
mainVars == <<pc, users, ui, afd, discussionSections, si, fetchLog, smsLog>>
vars == <<sanVars, extVars, mainVars>>

----------------------------------------------------------------------------
(* Bounds of the checked inputs *)

MaxLen == 5        \* longest input of sanitizeString
MaxPieces == 5     \* pieces a product text is assembled from
MaxUsers == 2      \* users in users.json

----------------------------------------------------------------------------
(* Characters and strings *)

NL == "\n"
TAB == "\t"
CR == "\r"
SP == " "
DOT == "."
AMP == "&"
EmptyString == << >>

\* all sequences over S of length at most n
RECURSIVE StringsUpTo(_, _)
StringsUpTo(S, n) ==
    IF n = 0 THEN {EmptyString}
    ELSE LET shorter == StringsUpTo(S, n - 1)
         IN shorter \cup {Append(s, c) : s \in {t \in shorter : Len(t) = n - 1}, c \in S}

RECURSIVE Concat(_)
Concat(ss) == IF ss = << >> THEN EmptyString ELSE Head(ss) \o Concat(Tail(ss))

SetMin(S) == CHOOSE x \in S : \A y \in S : x <= y
SetMax(S) == CHOOSE x \in S : \A y \in S : y <= x

LowerLetters == <<"a","b","c","d","e","f","g","h","i","j","k","l","m",
                  "n","o","p","q","r","s","t","u","v","w","x","y","z">>
UpperLetters == <<"A","B","C","D","E","F","G","H","I","J","K","L","M",
                  "N","O","P","Q","R","S","T","U","V","W","X","Y","Z">>

\* unicode.ToUpper, unicode.ToLower on the letters of the model
UpperOf == [c \in {LowerLetters[i] : i \in 1..Len(LowerLetters)} |->
               UpperLetters[CHOOSE i \in 1..Len(LowerLetters) : LowerLetters[i] = c]]
LowerOf == [c \in {UpperLetters[i] : i \in 1..Len(UpperLetters)} |->
               LowerLetters[CHOOSE i \in 1..Len(UpperLetters) : UpperLetters[i] = c]]

ToUpperChar(c) == IF c \in DOMAIN UpperOf THEN UpperOf[c] ELSE c
ToLowerChar(c) == IF c \in DOMAIN LowerOf THEN LowerOf[c] ELSE c

\* strings.ToUpper, strings.ToLower
ToUpper(s) == [i \in 1..Len(s) |-> ToUpperChar(s[i])]
ToLower(s) == [i \in 1..Len(s) |-> ToLowerChar(s[i])]

\* the class \s of RE2: [\t\n\f\r ]
IsWhitespace(c) == c \in {SP, TAB, NL, CR, "\f"}

----------------------------------------------------------------------------
(* sanitizeString: four ReplaceAllString calls, in the order of the code *)

\* `^[\s\p{Zs}]+|[\s\p{Zs}]+$` replaced by "": without (?m), ^ and $ are the
\* ends of the text, so the leading and the trailing run are removed.
RECURSIVE TrimLeft(_)
TrimLeft(s) ==
    IF s = EmptyString THEN s
    ELSE IF IsWhitespace(Head(s)) THEN TrimLeft(Tail(s)) ELSE s

RECURSIVE TrimRight(_)
TrimRight(s) ==
    IF s = EmptyString THEN s
    ELSE IF IsWhitespace(s[Len(s)]) THEN TrimRight(SubSeq(s, 1, Len(s) - 1)) ELSE s

leadingTrailingWhitespaceRe(s) == TrimRight(TrimLeft(s))

\* `([^\n])(\n)([^\n])` replaced by "$1$3": the matches are found left to
\* right and do not overlap; the search resumes after the third character
\* of a match, which is therefore never the first character of the next.
RECURSIVE multipleNewlineRe(_)
multipleNewlineRe(s) ==
    IF Len(s) < 3 THEN s
    ELSE IF s[1] # NL /\ s[2] = NL /\ s[3] # NL
         THEN <<s[1], s[3]>> \o multipleNewlineRe(SubSeq(s, 4, Len(s)))
         ELSE <<s[1]>> \o multipleNewlineRe(Tail(s))

\* length of the run of spaces s starts with
RECURSIVE SpaceRun(_)
SpaceRun(s) ==
    IF s # EmptyString /\ Head(s) = SP THEN 1 + SpaceRun(Tail(s)) ELSE 0

\* `(?m) {2,}` replaced by "": every maximal run of two or more spaces goes
RECURSIVE multipleSpacesRe(_)
multipleSpacesRe(s) ==
    IF s = EmptyString THEN s
    ELSE IF SpaceRun(s) >= 2
         THEN multipleSpacesRe(SubSeq(s, SpaceRun(s) + 1, Len(s)))
         ELSE <<Head(s)>> \o multipleSpacesRe(Tail(s))

\* `[\t\r]` replaced by ""
tabRe(s) == SelectSeq(s, LAMBDA c : c \notin {TAB, CR})

sanitizeString(s) ==
    tabRe(multipleSpacesRe(multipleNewlineRe(leadingTrailingWhitespaceRe(s))))

----------------------------------------------------------------------------
(* Product.GetDiscussionSection *)

\* the item under its heading with a single newline, no blank line between
formatDiscussionItemOneNewline(discussionType, discussionItem) ==
    ToUpper(discussionType) \o <<":", NL>> \o discussionItem

\* strings.ToUpper(discussionType) + ":\n\n" + discussionItem
formatDiscussionItem(discussionType, discussionItem) ==
    ToUpper(discussionType) \o <<":", NL, NL>> \o discussionItem

\* the class [.\s] of the header's delimiter
IsDelimiter(c) == c = DOT \/ IsWhitespace(c)

\* (?i): two characters match when they are equal up to case
FoldEq(c, d) == ToUpperChar(c) = ToUpperChar(d)

\* `\.` + name at position i of text, case-insensitively
NameAt(text, name, i) ==
    /\ i >= 1 /\ i + Len(name) <= Len(text)
    /\ text[i] = DOT
    /\ \A k \in 1..Len(name) : FoldEq(text[i + k], name[k])

\* the literal `&&` at position j of text
TerminatorAt(text, j) ==
    /\ j >= 1 /\ j + 1 <= Len(text)
    /\ text[j] = AMP /\ text[j + 1] = AMP

\* length of the run of delimiter characters starting at position p
RECURSIVE DelimiterRun(_, _)
DelimiterRun(text, p) ==
    IF p <= Len(text) /\ IsDelimiter(text[p]) THEN 1 + DelimiterRun(text, p + 1) ELSE 0

\* `[.\s]*`: the delimiter lengths a header with an optional delimiter allows
DelimiterLengthsOptional(text, p) == 0..DelimiterRun(text, p)

\* `[.\s]+`: the lengths the delimiter starting at position p can have
DelimiterLengths(text, p) == 1..DelimiterRun(text, p)

\* `(.+?)&&` from position c: the lengths k >= 1 of a capture that is
\* followed by the terminator ((?s): the dot matches a newline too)
CaptureLengths(text, c) ==
    {k \in 1..Len(text) : TerminatorAt(text, c + k)}

\* The match of `(?is)\.NAME[.\s]+(.+?)&&` that starts at position i, as
\* <<whole match, group 1>>, or << >> when there is none.  Leftmost-first:
\* the greedy delimiter takes the longest run that still lets the rest match,
\* then the lazy group takes the shortest capture.
MatchAt(text, name, i) ==
    LET p == i + Len(name) + 1
        ds == {d \in DelimiterLengths(text, p) : CaptureLengths(text, p + d) # {}}
    IN  IF NameAt(text, name, i) /\ ds # {}
        THEN LET c == p + SetMax(ds)
                 k == SetMin(CaptureLengths(text, c))
             IN  <<SubSeq(text, i, c + k + 1), SubSeq(text, c, c + k - 1)>>
        ELSE << >>

\* re.FindStringSubmatch(s.ProductText): the leftmost match, nil if none
FindStringSubmatch(text, name) ==
    LET starts == {i \in 1..Len(text) : MatchAt(text, name, i) # << >>}
    IN  IF starts = {} THEN << >> ELSE MatchAt(text, name, SetMin(starts))

NoSectionError(name) == <<"No section of type ", name, " found">>

\* GetDiscussionSection(sectionName) on the product text: the submatch, the
\* returned string and the returned error
GetDiscussionSection(text, name0) ==
    LET name == ToUpper(ToLower(name0))
        res == FindStringSubmatch(text, name)
    IN  IF Len(res) < 2
        THEN [result |-> res, section |-> EmptyString, err |-> NoSectionError(name)]
        ELSE [result |-> res,
              section |-> formatDiscussionItem(name, sanitizeString(res[2])),
              err |-> "nil"]

----------------------------------------------------------------------------
(* User.GetSubscribedSections *)

\* make([]string, n): n empty strings
MakeStrings(n) == [i \in 1..n |-> EmptyString]

\* the for loop: each subscription's section (the empty string when
\* GetDiscussionSection returned an error) is appended to sections
RECURSIVE AppendSections(_, _, _)
AppendSections(sections, text, subscriptions) ==
    IF subscriptions = << >> THEN sections
    ELSE AppendSections(
             Append(sections, GetDiscussionSection(text, Head(subscriptions)).section),
             text, Tail(subscriptions))

\* the slice GetSubscribedSections returns once client.GetAFD() has
\* returned the product with this text
GetSubscribedSections(user, text) ==
    AppendSections(MakeStrings(Len(user.Subscriptions)), text, user.Subscriptions)

----------------------------------------------------------------------------
(* The specification of sanitizeString on bounded inputs *)

SanAlphabet == {"a", SP, NL, TAB, CR}

SanIdle ==
    /\ sPc = "idle" /\ sIn = EmptyString /\ sTrimmed = EmptyString
    /\ sJoined = EmptyString /\ sOut = EmptyString /\ sOut2 = EmptyString
ExtIdle ==
    /\ ePc = "idle" /\ productText = EmptyString /\ sectionName = EmptyString
    /\ result = << >> /\ section = EmptyString /\ err = "nil"
MainIdle ==
    /\ pc = "idle" /\ users = << >> /\ ui = 0 /\ afd = EmptyString
    /\ discussionSections = << >> /\ si = 0 /\ fetchLog = << >> /\ smsLog = << >>

InitSanitize ==
    /\ sPc = "start"
    /\ sIn \in StringsUpTo(SanAlphabet, MaxLen)
    /\ sTrimmed = EmptyString /\ sJoined = EmptyString
    /\ sOut = EmptyString /\ sOut2 = EmptyString
    /\ ExtIdle /\ MainIdle

\* output := sanitizeString(s), keeping the text after the first two steps
Sanitize ==
    /\ sPc = "start"
    /\ sTrimmed' = leadingTrailingWhitespaceRe(sIn)
    /\ sJoined' = multipleNewlineRe(leadingTrailingWhitespaceRe(sIn))
    /\ sOut' = sanitizeString(sIn)
    /\ sPc' = "once"
    /\ UNCHANGED <<sIn, sOut2, extVars, mainVars>>

\* sanitizeString applied to its own output
SanitizeAgain ==
    /\ sPc = "once"
    /\ sOut2' = sanitizeString(sOut)
    /\ sPc' = "twice"
    /\ UNCHANGED <<sIn, sTrimmed, sJoined, sOut, extVars, mainVars>>

NextSanitize == Sanitize \/ SanitizeAgain

SpecSanitize == InitSanitize /\ [][NextSanitize]_vars

----------------------------------------------------------------------------
(* Claims about sanitizeString *)

\* C3: sanitizeString is idempotent: applying it to its own output changes
\* nothing, sanitizeString(sanitizeString(x)) = sanitizeString(x).
C3_Idempotent == sPc = "twice" => sOut2 = sOut

\* the positions of s holding a newline between two non-newline characters
LoneNewlines(s) ==
    {i \in 2..(Len(s) - 1) : s[i] = NL /\ s[i - 1] # NL /\ s[i + 1] # NL}

\* s without the characters at the positions in D
RECURSIVE DeletePositions(_, _, _)
DeletePositions(s, D, i) ==
    IF i > Len(s) THEN EmptyString
    ELSE (IF i \in D THEN EmptyString ELSE <<s[i]>>) \o DeletePositions(s, D, i + 1)

\* C8: after the newline-joining step every newline that stood between two
\* non-newline characters is deleted (so no lone newline remains), and
\* nothing else, in particular no run of two or more newlines, is changed.
C8_LoneNewlinesDeleted ==
    sPc # "start" =>
        /\ sJoined = DeletePositions(sTrimmed, LoneNewlines(sTrimmed), 1)
        /\ LoneNewlines(sJoined) = {}

----------------------------------------------------------------------------
(* The specification of GetDiscussionSection on bounded product texts *)

synopsis == <<"s","y","n","o","p","s","i","s">>
aviation == <<"a","v","i","a","t","i","o","n">>
SYNOPSIS == ToUpper(synopsis)
AVIATION == ToUpper(aviation)

\* what a bounded product text is assembled from: headers as they occur in
\* bulletins, the "..." after a header, the terminator, and text
Pieces ==
    { <<DOT>> \o SYNOPSIS, <<DOT>> \o synopsis, <<DOT, DOT, DOT>>,
      <<AMP, AMP>>, <<"a">>, <<SP>>, <<NL>> }

ProductTexts == {Concat(ps) : ps \in StringsUpTo(Pieces, MaxPieces)}

\* the section name asked for
SectionNames == {synopsis}

InitExtract ==
    /\ ePc = "start"
    /\ productText \in ProductTexts
    /\ sectionName \in SectionNames
    /\ result = << >> /\ section = EmptyString /\ err = "nil"
    /\ SanIdle /\ MainIdle

\* section, err := afd.GetDiscussionSection(sectionName)
Extract ==
    /\ ePc = "start"
    /\ LET r == GetDiscussionSection(productText, sectionName)
       IN  /\ result' = r.result
           /\ section' = r.section
           /\ err' = r.err
    /\ ePc' = "done"
    /\ UNCHANGED <<productText, sectionName, sanVars, mainVars>>

NextExtract == Extract

SpecExtract == InitExtract /\ [][NextExtract]_vars

----------------------------------------------------------------------------
(* Claims about GetDiscussionSection *)

\* s occurs in text at position i
OccursAt(text, s, i) ==
    /\ i >= 1 /\ i + Len(s) - 1 <= Len(text)
    /\ \A k \in 1..Len(s) : text[i + k - 1] = s[k]

Contains(text, s) == \E i \in 1..Len(text) : OccursAt(text, s, i)

SynopsisHeader == <<DOT>> \o SYNOPSIS \o <<DOT, DOT, DOT>>
Terminator == <<AMP, AMP>>

\* the ways to read text as prefix + ".SYNOPSIS..." + body + "&&" + suffix:
\* i is where the header starts, j where the terminator starts
Decompositions(text) ==
    UNION { { <<i, j>> : j \in {m \in (i + Len(SynopsisHeader))..Len(text) :
                                    OccursAt(text, Terminator, m)} } :
            i \in {h \in 1..Len(text) : OccursAt(text, SynopsisHeader, h)} }

BodyOf(text, d) == SubSeq(text, d[1] + Len(SynopsisHeader), d[2] - 1)

\* C1 as stated: for every text prefix + ".SYNOPSIS..." + body + "&&" + suffix,
\* whatever the body, GetDiscussionSection(text, "synopsis") succeeds and
\* returns "SYNOPSIS:\n\n" followed by sanitizeString(body).
C1_AnyBody ==
    (ePc = "done" /\ sectionName = synopsis) =>
        \A d \in Decompositions(productText) :
            /\ err = "nil"
            /\ section = SYNOPSIS \o <<":", NL, NL>>
                            \o sanitizeString(BodyOf(productText, d))

\* the body has a character that is neither '.' nor whitespace, and only
\* whitespace stands before the first such character
StartsWithText(body) ==
    \E k \in 1..Len(body) :
        /\ ~IsDelimiter(body[k])
        /\ \A m \in 1..(k - 1) : IsWhitespace(body[m])

\* no header name (in any case) in the prefix, a body that starts with text
\* and in which, followed by the terminator, no earlier "&&" occurs
PlainDecomposition(text, d) ==
    /\ ~\E i \in 1..(d[1] - 1) :
            /\ i + Len(SYNOPSIS) <= d[1] - 1
            /\ text[i] = DOT
            /\ ToUpper(SubSeq(text, i + 1, i + Len(SYNOPSIS))) = SYNOPSIS
    /\ StartsWithText(BodyOf(text, d))
    /\ ~Contains(BodyOf(text, d) \o <<AMP>>, Terminator)

\* C1, amended: for every text prefix + ".SYNOPSIS..." + body + "&&" + suffix
\* whose prefix holds no ".SYNOPSIS" (in any case), whose body has a first
\* character other than '.' and whitespace with only whitespace before it,
\* and whose body followed by "&" holds no "&&", GetDiscussionSection(text,
\* "synopsis") succeeds and returns "SYNOPSIS:\n\n" + sanitizeString(body).
C1_PlainBody ==
    (ePc = "done" /\ sectionName = synopsis) =>
        \A d \in Decompositions(productText) :
            PlainDecomposition(productText, d) =>
                /\ err = "nil"
                /\ section = SYNOPSIS \o <<":", NL, NL>>
                                \o sanitizeString(BodyOf(productText, d))

\* a plain decomposition whose body begins with whitespace that the
\* delimiter swallows, extracted
C1_Witness ==
    /\ ePc = "done" /\ sectionName = synopsis /\ err = "nil"
    /\ \E d \in Decompositions(productText) :
        /\ PlainDecomposition(productText, d)
        /\ Len(BodyOf(productText, d)) >= 2
        /\ IsWhitespace(BodyOf(productText, d)[1])
        /\ section = SYNOPSIS \o <<":", NL, NL, "a">>

\* '.' and then the name, in any case, at position i
NameOccursAt(text, name, i) ==
    /\ i >= 1 /\ i + Len(name) <= Len(text)
    /\ text[i] = DOT
    /\ ToUpper(SubSeq(text, i + 1, i + Len(name))) = ToUpper(name)

\* the requested header, in any case, followed by a delimiter, at position i
HeaderAt(text, name, i) ==
    /\ NameOccursAt(text, name, i)
    /\ i + Len(name) + 1 <= Len(text)
    /\ IsDelimiter(text[i + Len(name) + 1])

HeaderOccurs(text, name) == \E i \in 1..Len(text) : HeaderAt(text, name, i)

\* some "&&" stands after the name of some occurrence of the header
TerminatorAfterHeader(text, name) ==
    \E i \in 1..Len(text) :
        /\ HeaderAt(text, name, i)
        /\ \E j \in (i + Len(name) + 1)..Len(text) : OccursAt(text, Terminator, j)

\* C2: when the requested header followed by a delimiter does not occur in
\* the product text, or no "&&" occurs after it, GetDiscussionSection
\* returns an error and the empty string, never a section text.
C2_MissingHeaderOrTerminator ==
    (ePc = "done" /\ ( \/ ~HeaderOccurs(productText, sectionName)
                       \/ ~TerminatorAfterHeader(productText, sectionName) )) =>
        /\ err # "nil"
        /\ section = EmptyString

\* the header occurs, in lower case, but no terminator follows it, although
\* one stands before it: the extraction has failed
C2_Witness ==
    /\ ePc = "done" /\ sectionName = synopsis
    /\ HeaderOccurs(productText, sectionName)
    /\ ~Contains(productText, <<DOT>> \o SYNOPSIS)
    /\ Contains(productText, Terminator)
    /\ ~TerminatorAfterHeader(productText, sectionName)
    /\ err = NoSectionError(SYNOPSIS)
    /\ section = EmptyString

\* C9: whenever GetDiscussionSection succeeds, the captured text stops at the
\* first "&&" after the header's delimiter, so neither the capture nor the
\* returned section text contains "&&".
C9_NoTerminatorInSection ==
    (ePc = "done" /\ err = "nil") =>
        /\ ~Contains(result[2], Terminator)
        /\ ~Contains(section, Terminator)

\* the text from the delimiter of the first header up to the next "&&" is
\* empty or made of delimiter characters only
FirstHeaderIsBlank(text, name) ==
    /\ HeaderOccurs(text, name)
    /\ LET i == SetMin({h \in 1..Len(text) : HeaderAt(text, name, h)})
           p == i + Len(name) + 1
       IN  \E j \in p..Len(text) :
              /\ OccursAt(text, Terminator, j)
              /\ \A m \in p..(j - 1) : IsDelimiter(text[m])

\* C10: GetDiscussionSection never succeeds with an empty body: on success
\* the text after "NAME:\n\n" is non-empty, and a header whose content
\* before "&&" is empty or only dots and whitespace yields the error.
C10_NoEmptySection ==
    (ePc = "done") =>
        /\ err = "nil" => Len(section) > Len(sectionName) + 3
        /\ FirstHeaderIsBlank(productText, sectionName) => err # "nil"

----------------------------------------------------------------------------
(* main: for each user, GetSubscribedSections, then SendSMS per section *)

CeilingsText ==
    <<"C","e","i","l","i","n","g","s",SP,"A","O","A",SP,"5","0","0","0",SP,"f","t",DOT>>
DryText == <<"D","r","y",DOT>>

\* product texts api.weather.gov may return
AviationProduct == <<DOT>> \o AVIATION \o <<DOT, DOT, DOT>> \o CeilingsText \o <<AMP, AMP>>
SynopsisProduct == <<DOT>> \o SYNOPSIS \o <<DOT, DOT, DOT>> \o DryText \o <<AMP, AMP>>
Products == {AviationProduct, SynopsisProduct}

\* what client.GetAFD() returns: a product, or one of its errors
GetAFD ==
    {[ProductText |-> p, err |-> "nil"] : p \in Products}
        \cup {[ProductText |-> EmptyString, err |-> "Couldn't find AFD"]}

\* the entries of users.json
UserKinds ==
    { [LocationID |-> "PHI", Subscriptions |-> <<aviation>>],
      [LocationID |-> "OKX", Subscriptions |-> <<synopsis, aviation>>],
      [LocationID |-> "LWX", Subscriptions |-> << >>] }

\* what twilio.SendSMS returns as err
SendSMSErrors == {"nil", "send failed"}

\* where the range loop over users.Users stands once user i is finished
AfterUser(i) == IF i + 1 > Len(users) THEN "done" ELSE "user"

Init ==
    /\ users \in UNION {[1..n -> UserKinds] : n \in 0..MaxUsers}
    /\ pc = IF users = << >> THEN "done" ELSE "user"
    /\ ui = 1
    /\ afd = EmptyString /\ discussionSections = << >> /\ si = 0
    /\ fetchLog = << >> /\ smsLog = << >>
    /\ SanIdle /\ ExtIdle

\* discussionSections := user.GetSubscribedSections(), GetAFD succeeding
GetSubscribedSectionsReturns ==
    /\ pc = "user"
    /\ \E r \in GetAFD :
        /\ r.err = "nil"
        /\ LET sections == GetSubscribedSections(users[ui], r.ProductText)
           IN  /\ afd' = r.ProductText
               /\ discussionSections' = sections
               /\ fetchLog' = Append(fetchLog,
                      [err |-> r.err, afd |-> r.ProductText, sections |-> sections])
               /\ IF sections = << >>
                  THEN /\ pc' = AfterUser(ui) /\ ui' = ui + 1 /\ si' = 0
                  ELSE /\ pc' = "send" /\ ui' = ui /\ si' = 1
    /\ UNCHANGED <<users, smsLog, sanVars, extVars>>

\* user.GetSubscribedSections() with GetAFD failing: log.Fatal(err) prints
\* the error and calls os.Exit(1)
GetSubscribedSectionsFatal ==
    /\ pc = "user"
    /\ \E r \in GetAFD :
        /\ r.err # "nil"
        /\ fetchLog' = Append(fetchLog,
               [err |-> r.err, afd |-> EmptyString, sections |-> << >>])
    /\ pc' = "exited"
    /\ UNCHANGED <<users, ui, afd, discussionSections, si, smsLog, sanVars, extVars>>

\* the section index after a SendSMS that returned smsErr, were the loop to
\* stop at the first error
NextSectionBreakOnError(i, smsErr) ==
    IF smsErr = "nil" THEN i + 1 ELSE Len(discussionSections) + 1

\* the section index after a SendSMS that returned smsErr: the error is
\* printed and the range loop goes on
NextSection(i, smsErr) == i + 1

\* twilio.SendSMS(config.TwillioFromPhone, user.Phone, section, "", "")
SendSMS ==
    /\ pc = "send"
    /\ \E smsErr \in SendSMSErrors :
        /\ smsLog' = Append(smsLog,
               [to |-> ui, body |-> discussionSections[si], err |-> smsErr])
        /\ si' = NextSection(si, smsErr)
        /\ IF NextSection(si, smsErr) > Len(discussionSections)
           THEN /\ pc' = AfterUser(ui) /\ ui' = ui + 1
           ELSE /\ pc' = "send" /\ ui' = ui
    /\ UNCHANGED <<users, afd, discussionSections, fetchLog, sanVars, extVars>>

Next == GetSubscribedSectionsReturns \/ GetSubscribedSectionsFatal \/ SendSMS

Spec == Init /\ [][Next]_vars

----------------------------------------------------------------------------
(* Claims about the batch *)

\* the SendSMS calls made for user u, and their bodies
SmsTo(u) == SelectSeq(smsLog, LAMBDA m : m.to = u)
Bodies(log) == [k \in 1..Len(log) |-> log[k].body]

\* the run is over: main returned, or the process exited
Terminated == pc \in {"done", "exited"}

\* user u has been fetched and all its sections have been through SendSMS
Finished(u) == u <= Len(fetchLog) /\ (u < ui \/ pc = "done")

\* the section texts found for the subscriptions, in subscription order
RECURSIVE FoundSections(_, _)
FoundSections(text, subscriptions) ==
    IF subscriptions = << >> THEN << >>
    ELSE LET r == GetDiscussionSection(text, Head(subscriptions))
         IN  (IF r.err = "nil" THEN <<r.section>> ELSE << >>)
                 \o FoundSections(text, Tail(subscriptions))

\* C4: when the fetch fails for a subscriber, no message is sent for that
\* subscriber, and every later subscriber of the batch is still processed:
\* by the end of the run its fetch has been attempted and, the fetch
\* succeeding, its found sections have been sent.
C4_FetchFailureSkipsUser ==
    \A u \in 1..Len(fetchLog) :
        fetchLog[u].err # "nil" =>
            /\ SmsTo(u) = << >>
            /\ Terminated =>
                  \A v \in (u + 1)..Len(users) :
                      /\ v <= Len(fetchLog)
                      /\ fetchLog[v].err = "nil" =>
                            \A t \in 1..Len(FoundSections(fetchLog[v].afd, users[v].Subscriptions)) :
                                \E k \in 1..Len(smsLog) :
                                    /\ smsLog[k].to = v
                                    /\ smsLog[k].body =
                                         FoundSections(fetchLog[v].afd, users[v].Subscriptions)[t]

\* C5: for a subscriber whose fetch succeeds, GetSubscribedSections returns
\* exactly one entry per subscription, in subscription order, the i-th being
\* the extraction result for the i-th subscription (the empty string for a
\* missing section), and nothing else.
C5_OneEntryPerSubscription ==
    \A u \in 1..Len(fetchLog) :
        fetchLog[u].err = "nil" =>
            /\ Len(fetchLog[u].sections) = Len(users[u].Subscriptions)
            /\ \A i \in 1..Len(users[u].Subscriptions) :
                  fetchLog[u].sections[i] =
                      GetDiscussionSection(fetchLog[u].afd, users[u].Subscriptions[i]).section

\* C6: for a subscriber whose fetch succeeds, the bodies passed to SendSMS
\* are the successfully extracted section texts of the subscriptions, in
\* order: none for a missing section, none empty; subscribed to "aviation"
\* alone, with the product ".AVIATION...Ceilings AOA 5000 ft.&&", the only
\* body is "AVIATION:\n\nCeilings AOA 5000 ft.".
C6_OneMessagePerFoundSection ==
    /\ \A k \in 1..Len(smsLog) : smsLog[k].body # EmptyString
    /\ \A u \in 1..Len(fetchLog) :
          (fetchLog[u].err = "nil" /\ Finished(u)) =>
              /\ Bodies(SmsTo(u)) = FoundSections(fetchLog[u].afd, users[u].Subscriptions)
              /\ (fetchLog[u].afd = AviationProduct /\ users[u].Subscriptions = <<aviation>>) =>
                    Bodies(SmsTo(u)) = << AVIATION \o <<":", NL, NL>> \o CeilingsText >>

\* C7: a SendSMS error ends neither the user's loop nor the run: whatever
\* the SendSMS calls returned, every section of a finished user has been
\* through SendSMS, in order, the sections of the current user up to the
\* current one, every user up to the current one has been fetched, and the
\* process exits only on a failed fetch.
C7_DeliveryFailureDoesNotStop ==
    /\ pc = "exited" => (fetchLog # << >> /\ fetchLog[Len(fetchLog)].err # "nil")
    /\ Len(fetchLog) = (IF pc = "user" THEN ui - 1
                        ELSE IF pc = "done" THEN Len(users) ELSE ui)
    /\ \A u \in 1..Len(fetchLog) :
          fetchLog[u].err = "nil" =>
              Bodies(SmsTo(u)) =
                  IF Finished(u) THEN fetchLog[u].sections
                  ELSE SubSeq(fetchLog[u].sections, 1, si - 1)

\* the first SendSMS of the first of two users failed; the run went on to
\* that user's other sections and to the second user, and main returned
C7_Witness ==
    /\ pc = "done" /\ Len(users) = 2
    /\ smsLog # << >> /\ smsLog[1].to = 1 /\ smsLog[1].err # "nil"
    /\ Len(SmsTo(1)) = Len(fetchLog[1].sections) /\ Len(SmsTo(1)) > 1
    /\ Len(SmsTo(2)) = Len(fetchLog[2].sections) /\ Len(SmsTo(2)) > 1

====
